---- MODULE Spec2Model ----
(***************************************************************************)
(* The e-commerce EDA dashboard script eda_app.py as a state machine.      *)
(*                                                                         *)
(* The script runs top to bottom on every Streamlit run: it reads the      *)
(* uploaded CSV into the dataframe df, coerces order_date, adds revenue,   *)
(* and computes one aggregate after the other.  A missing column makes the *)
(* subscript df["col"] raise KeyError, which ends the run.  A widget       *)
(* interaction starts the script again from the top.                       *)
(*                                                                         *)
(* Representation.                                                         *)
(*   label cell    a string; the null label is NA = "NaN", which read_csv  *)
(*                 turns into a missing value                              *)
(*   numeric cell  <<n>>, or NaN = <<>> for a missing value                *)
(*   raw date      the characters of the CSV field, <<>> for an empty one  *)
(*   parsed date   <<year, month, day>>, or NaT = <<>>                     *)
(*   discount      a fraction, held in hundredths (<<50>> is 0.5); so      *)
(*                 revenue is held in hundredths of the price unit         *)
(***************************************************************************)
EXTENDS Integers, Sequences, FiniteSets, TLC

VARIABLES
    csv,          \* the uploaded file: [cols: column names, rows: records]
    df,           \* the dataframe of the current run
    views,        \* the results computed so far in the current run, by name
    pc,           \* the script's position
    freq,         \* st.radio "Select frequency:"
    top_n,        \* st.slider "How many top items to show?"
    argsortTies,  \* how the build's quicksort orders equal values
    run,          \* number of the current run
    prev          \* outcome and configuration of the previous run

vars == <<csv, df, views, pc, freq, top_n, argsortTies, run, prev>>

----------------------------------------------------------------------------
(* Bounds of the model *)

MaxRows == 2
MaxOrders == 3
MaxProducts == 6
MaxRuns == 2

----------------------------------------------------------------------------
(* Cells *)

NA == "NaN"
NaN == <<>>
NaT == <<>>

CanonicalCols ==
    <<"order_id", "order_date", "product_id", "category", "customer_id",
      "region", "payment_method", "quantity", "price", "discount">>

TupleCols == {"order_date", "quantity", "price", "discount", "revenue", "month"}

IsNullCell(c, v) == IF c \in TupleCols THEN v = <<>> ELSE v = NA

Range(s) == {s[i] : i \in DOMAIN s}

HasCols(d, cs) == cs \subseteq Range(d.cols)

Min(a, b) == IF a < b THEN a ELSE b

\* Python's str order on the labels the datasets use: their rank by code point.
LabelOrder ==
    <<"A", "B", "Books", "C", "D", "E", "F", "France", "G", "H", "Toys",
      "United Kingdom", "c1", "c2", "card", "cash", "o1", "o2", "o3", "o4">>

LabelRank(s) == CHOOSE i \in DOMAIN LabelOrder : LabelOrder[i] = s

----------------------------------------------------------------------------
(* pd.to_datetime(..., errors="coerce") on ISO "YYYY-MM-DD" text *)

Digit(ch) ==
    CASE ch = "0" -> 0 [] ch = "1" -> 1 [] ch = "2" -> 2 [] ch = "3" -> 3
      [] ch = "4" -> 4 [] ch = "5" -> 5 [] ch = "6" -> 6 [] ch = "7" -> 7
      [] ch = "8" -> 8 [] ch = "9" -> 9 [] OTHER -> -1

DigitChar(n) ==
    CASE n = 0 -> "0" [] n = 1 -> "1" [] n = 2 -> "2" [] n = 3 -> "3"
      [] n = 4 -> "4" [] n = 5 -> "5" [] n = 6 -> "6" [] n = 7 -> "7"
      [] n = 8 -> "8" [] n = 9 -> "9"

IsLeap(y) == (y % 4 = 0 /\ y % 100 # 0) \/ y % 400 = 0

DaysInMonth(y, m) ==
    IF m \in {4, 6, 9, 11} THEN 30
    ELSE IF m = 2 THEN (IF IsLeap(y) THEN 29 ELSE 28)
    ELSE 31

\* A parsed value (three numbers) stays as it is; text that is no calendar date
\* becomes NaT.  No date text of the datasets is three characters long.
to_datetime(raw) ==
    IF Len(raw) = 3 THEN raw
    ELSE IF /\ Len(raw) = 10
            /\ raw[5] = "-" /\ raw[8] = "-"
            /\ \A i \in {1, 2, 3, 4, 6, 7, 9, 10} : Digit(raw[i]) >= 0
    THEN LET y == 1000 * Digit(raw[1]) + 100 * Digit(raw[2])
                  + 10 * Digit(raw[3]) + Digit(raw[4])
             m == 10 * Digit(raw[6]) + Digit(raw[7])
             d == 10 * Digit(raw[9]) + Digit(raw[10])
         IN IF m \in 1..12 /\ d \in 1..DaysInMonth(y, m)
            THEN <<y, m, d>> ELSE NaT
    ELSE NaT

\* Series.dt.date: the calendar day, NaT kept.
dt_date(d) == d

\* (mutant) the period keeps the day.
to_period_D(d) == d

\* Series.dt.to_period("M"): the calendar month, NaT kept.
to_period_M(d) == IF d = NaT THEN NaT ELSE <<d[1], d[2]>>

\* Period.astype(str): "YYYY-MM".
PeriodStr(p) ==
    <<DigitChar(p[1] \div 1000), DigitChar((p[1] \div 100) % 10),
      DigitChar((p[1] \div 10) % 10), DigitChar(p[1] % 10), "-",
      DigitChar(p[2] \div 10), DigitChar(p[2] % 10)>>

\* Chronological position of a day or a month.
DateCode(d) == IF Len(d) = 3 THEN (d[1] * 12 + d[2]) * 32 + d[3]
               ELSE d[1] * 12 + d[2]

----------------------------------------------------------------------------
(* Column arithmetic and reductions *)

NumMul(a, b) == IF a = NaN \/ b = NaN THEN NaN ELSE <<a[1] * b[1]>>

\* 1 - discount, in hundredths.
OneMinus(a) == IF a = NaN THEN NaN ELSE <<100 - a[1]>>

RevenueOf(r) == NumMul(NumMul(r.quantity, r.price), OneMinus(r.discount))

Col(d, c) == [i \in DOMAIN d.rows |-> d.rows[i][c]]

\* df[c] = values: the column is replaced, or appended when new.
SetCol(d, c, values) ==
    [cols |-> IF c \in Range(d.cols) THEN d.cols ELSE Append(d.cols, c),
     rows |-> [i \in DOMAIN d.rows |-> (c :> values[i]) @@ d.rows[i]]]

RECURSIVE SumSeq(_)
\* Series.sum(): missing values are skipped, the empty sum is 0.
SumSeq(s) ==
    IF s = <<>> THEN 0
    ELSE (IF Head(s) = NaN THEN 0 ELSE Head(s)[1]) + SumSeq(Tail(s))

\* (mutant) Series.count(): the number of non-null labels, repeats included.
CountRows(s) == Cardinality({i \in DOMAIN s : s[i] # NA})

\* Series.nunique(): the number of distinct non-null labels.
NUnique(s) == Cardinality(Range(s) \ {NA})

RECURSIVE Gcd(_, _)
Gcd(a, b) == IF b = 0 THEN a ELSE Gcd(b, a % b)

Abs(a) == IF a < 0 THEN -a ELSE a

\* The quotient a / b of a true division, as a fraction in lowest terms.
TrueDiv(a, b) ==
    LET g == Gcd(Abs(a), b) IN <<a \div g, b \div g>>

----------------------------------------------------------------------------
(* Group-by, sorting, truncation *)

RECURSIVE SortKeys(_, _)
\* The members of S in ascending order of code[k].
SortKeys(S, code) ==
    IF S = {} THEN <<>>
    ELSE LET m == CHOOSE k \in S : \A j \in S : code[k] <= code[j]
         IN <<m>> \o SortKeys(S \ {m}, code)

\* groupby(...) keys: the distinct non-null keys, sorted (sort=True, dropna=True).
LabelKeys(keys) ==
    LET S == Range(keys) \ {NA} IN SortKeys(S, [k \in S |-> LabelRank(k)])

DateKeys(keys) ==
    LET S == Range(keys) \ {NaT} IN SortKeys(S, [k \in S |-> DateCode(k)])

RECURSIVE SumWhere(_, _, _)
\* The sum of vals over the rows whose key is k, missing values skipped.
SumWhere(keys, vals, k) ==
    IF keys = <<>> THEN 0
    ELSE (IF Head(keys) = k /\ Head(vals) # NaN THEN Head(vals)[1] ELSE 0)
         + SumWhere(Tail(keys), Tail(vals), k)

\* groupby(keys)[vals].sum() over the sorted group keys gk.
GroupSum(gk, keys, vals) ==
    [j \in DOMAIN gk |-> <<gk[j], SumWhere(keys, vals, gk[j])>>]

\* groupby(keys)[ids].nunique() over the sorted group keys gk.
GroupNUnique(gk, keys, ids) ==
    [j \in DOMAIN gk |->
        <<gk[j], Cardinality({ids[i] : i \in {x \in DOMAIN keys : keys[x] = gk[j]}}
                             \ {NA})>>]

\* Series.sort_values(ascending=False) with the default kind="quicksort":
\* descending by value; quicksort is not a stable sort, so the order of equal
\* values is what the build's argsort makes it (argsortTies).
SortValuesDesc(s) ==
    LET n == Len(s)
        tie(i) == IF argsortTies = "original" THEN i ELSE n + 1 - i
        perm == SortKeys(DOMAIN s, [i \in DOMAIN s |-> tie(i) - s[i][2] * (n + 1)])
    IN [j \in DOMAIN s |-> s[perm[j]]]

\* .head(n)
HeadN(s, n) == SubSeq(s, 1, Min(n, Len(s)))

RECURSIVE FirstSeen(_)
\* The distinct non-null labels of s in order of first appearance.
FirstSeen(s) ==
    IF s = <<>> THEN <<>>
    ELSE LET rest == FirstSeen(SubSeq(s, 1, Len(s) - 1))
             x == s[Len(s)]
         IN IF x = NA \/ x \in Range(rest) THEN rest ELSE Append(rest, x)

\* Series.value_counts(): rows per label, most frequent first.
ValueCounts(s) ==
    LET fs == FirstSeen(s)
    IN SortValuesDesc([j \in DOMAIN fs |->
                          <<fs[j], Cardinality({i \in DOMAIN s : s[i] = fs[j]})>>])

----------------------------------------------------------------------------
(* Script steps *)

\* (mutant) the dataframe of the previous run is used again.
read_csv_cached(file) == IF run > 1 THEN df ELSE file

read_csv(file) == file

\* (mutant) rows whose date did not parse are dropped.
CoerceAndDrop(d) ==
    LET coerced == [cols |-> d.cols,
                    rows |-> [i \in DOMAIN d.rows |->
                                ("order_date" :> to_datetime(d.rows[i].order_date))
                                @@ d.rows[i]]]
    IN [cols |-> d.cols,
        rows |-> SelectSeq(coerced.rows, LAMBDA r : r.order_date # NaT)]

\* df["order_date"] = pd.to_datetime(df["order_date"], errors="coerce")
CoerceOrderDate(d) ==
    SetCol(d, "order_date",
           [i \in DOMAIN d.rows |-> to_datetime(d.rows[i].order_date)])

\* df["revenue"] = df["quantity"] * df["price"] * (1 - df["discount"])
AddRevenue(d) ==
    SetCol(d, "revenue", [i \in DOMAIN d.rows |-> RevenueOf(d.rows[i])])

Raise == /\ pc' = "raised"
         /\ UNCHANGED <<csv, df, views, freq, top_n, argsortTies, run, prev>>

Load ==
    /\ pc = "load"
    /\ df' = read_csv(csv)
    /\ pc' = "dates"
    /\ UNCHANGED <<csv, views, freq, top_n, argsortTies, run, prev>>

CoerceDates ==
    /\ pc = "dates"
    /\ IF HasCols(df, {"order_date"})
       THEN /\ df' = CoerceOrderDate(df)
            /\ pc' = "revenue"
            /\ UNCHANGED <<csv, views, freq, top_n, argsortTies, run, prev>>
       ELSE Raise

ComputeRevenue ==
    /\ pc = "revenue"
    /\ IF HasCols(df, {"quantity", "price", "discount"})
       THEN /\ df' = AddRevenue(df)
            /\ pc' = "overview"
            /\ UNCHANGED <<csv, views, freq, top_n, argsortTies, run, prev>>
       ELSE Raise

\* The views, each from the dataframe as it is when the step runs.

OverviewOf(d) ==
    [shape |-> <<Len(d.rows), Len(d.cols)>>,
     nulls |-> [j \in DOMAIN d.cols |->
                  <<d.cols[j],
                    Cardinality({i \in DOMAIN d.rows :
                                    IsNullCell(d.cols[j], d.rows[i][d.cols[j]])})>>]]

\* (mutant) the division is not guarded: 0 / 0 is not a number.
KpisUnguarded(d) ==
    LET total_revenue == SumSeq(Col(d, "revenue"))
        total_orders == NUnique(Col(d, "order_id"))
    IN [total_revenue |-> total_revenue,
        total_orders |-> total_orders,
        avg_order_value |-> IF total_orders > 0
                            THEN TrueDiv(total_revenue, total_orders)
                            ELSE <<0, 0>>]

KpisOf(d) ==
    LET total_revenue == SumSeq(Col(d, "revenue"))
        total_orders == NUnique(Col(d, "order_id"))
    IN [total_revenue |-> total_revenue,
        total_orders |-> total_orders,
        avg_order_value |-> IF total_orders > 0
                            THEN TrueDiv(total_revenue, total_orders)
                            ELSE <<0, 1>>]

\* (mutant) the selected frequency is ignored: the trend is always monthly.
TrendMonthly(d, f) ==
    LET keys == [i \in DOMAIN d.rows |-> to_period_M(d.rows[i].order_date)]
        ts == GroupSum(DateKeys(keys), keys, Col(d, "revenue"))
    IN [j \in DOMAIN ts |-> <<PeriodStr(ts[j][1]), ts[j][2]>>]

TrendOf(d, f) ==
    IF f = "D"
    THEN LET keys == [i \in DOMAIN d.rows |-> dt_date(d.rows[i].order_date)]
         IN GroupSum(DateKeys(keys), keys, Col(d, "revenue"))
    ELSE LET keys == [i \in DOMAIN d.rows |-> to_period_M(d.rows[i].order_date)]
             ts == GroupSum(DateKeys(keys), keys, Col(d, "revenue"))
         IN [j \in DOMAIN ts |-> <<PeriodStr(ts[j][1]), ts[j][2]>>]

RevenueBy(d, c) == GroupSum(LabelKeys(Col(d, c)), Col(d, c), Col(d, "revenue"))

TopProductsOf(d, n) == HeadN(SortValuesDesc(RevenueBy(d, "product_id")), n)

TopCategoriesOf(d) == SortValuesDesc(RevenueBy(d, "category"))

PaymentCountsOf(d) == ValueCounts(Col(d, "payment_method"))

RegionSalesOf(d) == RevenueBy(d, "region")

num_cols == <<"quantity", "price", "discount", "revenue">>

\* df[num_cols].corr(): the matrix is held by its labels only.
CorrOf(d) == num_cols

TopCustomersOf(d) == HeadN(SortValuesDesc(RevenueBy(d, "customer_id")), 10)

AddMonth(d) ==
    SetCol(d, "month",
           [i \in DOMAIN d.rows |-> to_period_M(to_datetime(d.rows[i].order_date))])

MonthlyOrdersOf(d) ==
    LET keys == Col(d, "month")
        mo == GroupNUnique(DateKeys(keys), keys, Col(d, "order_id"))
    IN [j \in DOMAIN mo |-> <<PeriodStr(mo[j][1]), mo[j][2]>>]

RegionOrdersOf(d) ==
    GroupNUnique(LabelKeys(Col(d, "region")), Col(d, "region"), Col(d, "order_id"))

\* One section of the script: it needs the columns `needs`, stores `value`
\* under `name` and goes on to `next`.
Section(at, needs, name, value, next) ==
    /\ pc = at
    /\ IF HasCols(df, needs)
       THEN /\ views' = (name :> value) @@ views
            /\ pc' = next
            /\ UNCHANGED <<csv, df, freq, top_n, argsortTies, run, prev>>
       ELSE Raise

Overview == Section("overview", {}, "overview", OverviewOf(df), "kpis")

Kpis == Section("kpis", {"revenue", "order_id"}, "kpis", KpisOf(df), "trend")

RevenueTrend ==
    Section("trend", {"order_date", "revenue"}, "trend", TrendOf(df, freq),
            "top_products")

TopProducts ==
    Section("top_products", {"product_id", "revenue"}, "top_products",
            TopProductsOf(df, top_n), "top_categories")

TopCategories ==
    Section("top_categories", {"category", "revenue"}, "top_categories",
            TopCategoriesOf(df), "payment")

PaymentCounts ==
    Section("payment", {"payment_method"}, "payment_counts",
            PaymentCountsOf(df), "region_sales")

RegionSales ==
    Section("region_sales", {"region", "revenue"}, "region_sales",
            RegionSalesOf(df), "corr")

Corr == Section("corr", Range(num_cols), "corr", CorrOf(df), "top_customers")

TopCustomers ==
    Section("top_customers", {"customer_id", "revenue"}, "top_customers",
            TopCustomersOf(df), "month")

MonthlyOrders ==
    /\ pc = "month"
    /\ IF HasCols(df, {"order_date", "order_id"})
       THEN /\ df' = AddMonth(df)
            /\ views' = ("monthly_orders" :> MonthlyOrdersOf(AddMonth(df))) @@ views
            /\ pc' = "region_orders"
            /\ UNCHANGED <<csv, freq, top_n, argsortTies, run, prev>>
       ELSE Raise

RegionOrders ==
    Section("region_orders", {"region", "order_id"}, "region_orders",
            RegionOrdersOf(df), "done")

\* A widget interaction (or a plain rerun) starts the script again from the top;
\* one interaction changes one widget.
Freqs == {"D", "M"}

TopNChoices == {5, 10}

Rerun ==
    /\ pc \in {"done", "raised"}
    /\ run < MaxRuns
    /\ \E f \in Freqs, n \in TopNChoices :
          /\ f = freq \/ n = top_n
          /\ freq' = f
          /\ top_n' = n
    /\ prev' = [pc |-> pc, views |-> views, freq |-> freq, top_n |-> top_n]
    /\ views' = [v \in {} |-> {}]
    /\ pc' = "load"
    /\ run' = run + 1
    /\ UNCHANGED <<csv, df, argsortTies>>

----------------------------------------------------------------------------
(* The uploaded datasets *)

Row(oid, date, prod, cat, cust, reg, pay, q, p, d) ==
    [order_id |-> oid, order_date |-> date, product_id |-> prod,
     category |-> cat, customer_id |-> cust, region |-> reg,
     payment_method |-> pay, quantity |-> q, price |-> p, discount |-> d]

Dec25 == <<"2", "0", "2", "3", "-", "1", "2", "-", "2", "5">>
Jan15 == <<"2", "0", "2", "4", "-", "0", "1", "-", "1", "5">>
Jan31 == <<"2", "0", "2", "4", "-", "0", "1", "-", "3", "1">>
Month13 == <<"2", "0", "2", "4", "-", "1", "3", "-", "0", "1">>
Empty == <<>>

RawDates == {Dec25, Jan15, Jan31, Month13, Empty}

SeqsUpTo(S, n) == UNION {[1..k -> S] : k \in 0..n}

File(cols, rows) ==
    [cols |-> cols,
     rows |-> [i \in DOMAIN rows |-> [c \in Range(cols) |-> rows[i][c]]]]

\* Orders: the order identifier varies (absent, repeated, distinct).
OrderRows ==
    {Row(o, Jan15, "A", "Books", "c1", "France", "card", <<1>>, <<100>>, <<0>>) :
        o \in {NA, "o1", "o2", "o3"}}

\* Dates: the date text varies on a paid row; a free row with no order has a
\* valid date or one that is no calendar date.
DateRows ==
    {Row("o1", d, "A", "Books", "c1", "France", "card", <<2>>, <<10>>, <<50>>) :
        d \in RawDates}
    \cup {Row(NA, d, "A", "Books", "c1", "France", "card", <<0>>, <<10>>, <<50>>) :
            d \in {Jan31, Month13}}

\* Places: category, region and payment method vary, absent ones included,
\* and one row has no quantity.
PlaceRows ==
    {Row(x[1], Jan15, "A", x[2], x[3], x[4], x[5], x[6], <<10>>, <<0>>) :
        x \in {<<"o1", "Books", "c1", "France", "card", <<1>>>>,
               <<"o1", "Books", "c2", "France", "cash", <<2>>>>,
               <<"o2", "Toys", "c2", "United Kingdom", "cash", <<2>>>>,
               <<"o1", NA, "c1", "France", NA, <<1>>>>,
               <<"o2", "Books", NA, NA, "card", <<2>>>>,
               <<"o2", "Toys", "c1", "France", "card", NaN>>}}

Products == <<"A", "B", "C", "D", "E", "F", "G", "H">>

\* Products: one row per product, the first three with a quantity of 1 or 2,
\* and optionally one more row of the first product.
ProductFiles ==
    {File(CanonicalCols,
          [i \in 1..k |->
              Row("o1", Jan15, Products[i], "Books", "c1", "France", "card",
                  <<IF i <= 3 THEN q[i] ELSE 1>>, <<10>>, <<0>>)]
          \o (IF more
              THEN <<Row("o2", Jan31, "A", "Toys", "c2", "France", "cash",
                         <<1>>, <<10>>, <<0>>)>>
              ELSE <<>>)) :
        k \in 0..MaxProducts, q \in [1..3 -> {1, 2}], more \in BOOLEAN}

\* Products A, B, C and D with revenues 100, 50, 75 and 10.
RankingExample ==
    File(CanonicalCols,
         [i \in 1..4 |->
             Row("o1", Jan15, Products[i], "Books", "c1", "France", "card",
                 <<1>>, <<(<<100, 50, 75, 10>>)[i]>>, <<0>>)])

\* Files that lack one column.
LackingFiles ==
    {File(SelectSeq(CanonicalCols, LAMBDA c : c # lacking), rows) :
        lacking \in Range(CanonicalCols),
        rows \in SeqsUpTo({Row("o1", Jan15, "A", "Books", "c1", "France", "card",
                               <<1>>, <<100>>, <<0>>)}, 1)}

Files ==
    {File(CanonicalCols, rows) : rows \in SeqsUpTo(OrderRows, MaxOrders)}
    \cup {File(CanonicalCols, rows) : rows \in SeqsUpTo(DateRows, MaxRows)}
    \cup {File(CanonicalCols, rows) : rows \in SeqsUpTo(PlaceRows, MaxRows)}
    \cup ProductFiles \cup {RankingExample} \cup LackingFiles

Init ==
    /\ csv \in Files
    /\ df = [cols |-> <<>>, rows |-> <<>>]
    /\ views = [v \in {} |-> {}]
    /\ pc = "load"
    /\ freq = "M"
    /\ top_n = 10
    /\ argsortTies \in {"original", "reversed"}
    /\ run = 1
    /\ prev = [pc |-> "none", views |-> [v \in {} |-> {}], freq |-> "M", top_n |-> 10]

Next ==
    \/ Load \/ CoerceDates \/ ComputeRevenue \/ Overview \/ Kpis
    \/ RevenueTrend \/ TopProducts \/ TopCategories \/ PaymentCounts
    \/ RegionSales \/ Corr \/ TopCustomers \/ MonthlyOrders \/ RegionOrders
    \/ Rerun

Spec == Init /\ [][Next]_vars

----------------------------------------------------------------------------
(* What the properties are stated in: the uploaded file itself *)

RevenueInputs == {"quantity", "price", "discount"}

RevenueViews ==
    {"kpis", "trend", "top_products", "top_categories", "region_sales", "corr",
     "top_customers"}

OtherViews == {"overview", "payment_counts", "monthly_orders", "region_orders"}

TableViews ==
    {"trend", "top_products", "top_categories", "payment_counts", "region_sales",
     "top_customers", "monthly_orders", "region_orders"}

FullFile == Range(csv.cols) = Range(CanonicalCols)

\* quantity x price x (1 - discount) of a file row, 0 when a factor is missing.
RowRevenue(r) ==
    IF r.quantity = NaN \/ r.price = NaN \/ r.discount = NaN THEN 0
    ELSE r.quantity[1] * r.price[1] * (100 - r.discount[1])

RECURSIVE RevenueOver(_)
\* The revenue of the file rows with the indices I.
RevenueOver(I) ==
    IF I = {} THEN 0
    ELSE LET i == CHOOSE x \in I : TRUE
         IN RowRevenue(csv.rows[i]) + RevenueOver(I \ {i})

RECURSIVE SumVals(_)
\* The sum of the values of a view of <<key, value>> entries.
SumVals(v) == IF v = <<>> THEN 0 ELSE Head(v)[2] + SumVals(Tail(v))

Keys(v) == {v[j][1] : j \in DOMAIN v}

----------------------------------------------------------------------------
(* C1 *)

\* C1: for every uploaded dataset that lacks quantity, price or discount, the
\* run does not raise; when it has finished, revenue and every view that depends
\* on it are omitted and the views that do not depend on revenue are produced.
C1_DegradesWithoutRevenueInputs ==
    ~(RevenueInputs \subseteq Range(csv.cols)) =>
        /\ pc # "raised"
        /\ pc = "done" =>
              /\ "revenue" \notin Range(df.cols)
              /\ RevenueViews \cap DOMAIN views = {}
              /\ OtherViews \subseteq DOMAIN views

----------------------------------------------------------------------------
(* C2 *)

\* C2: the average order value is total revenue (the sum of revenue over all
\* rows) divided by total orders (the number of distinct non-null order_id
\* values) when total orders > 0, and 0 when total orders = 0.
C2_AverageOrderValue ==
    "kpis" \in DOMAIN views =>
        LET k == views["kpis"]
            revenue == RevenueOver(DOMAIN csv.rows)
            orders == Cardinality({csv.rows[i].order_id : i \in DOMAIN csv.rows}
                                  \ {NA})
            avg == k.avg_order_value
        IN /\ k.total_revenue = revenue
           /\ k.total_orders = orders
           /\ avg[2] > 0
           /\ IF orders > 0 THEN avg[1] * orders = revenue * avg[2]
              ELSE avg[1] = 0

\* Total revenue 300 over 3 distinct order ids gives an average of 100.
C2_Witness ==
    /\ "kpis" \in DOMAIN views
    /\ views["kpis"] = [total_revenue |-> 30000, total_orders |-> 3,
                        avg_order_value |-> <<10000, 1>>]

\* Revenue without any order: the average is 0, nothing was divided.
C2_WitnessNoOrders ==
    /\ "kpis" \in DOMAIN views
    /\ views["kpis"].total_orders = 0
    /\ views["kpis"].total_revenue > 0
    /\ views["kpis"].avg_order_value = <<0, 1>>

----------------------------------------------------------------------------
(* C3 *)

\* C3: when category and region are both present, the values of revenue by
\* category and of revenue by region sum to the same amount, the total-revenue
\* KPI, also when some rows have a null category or a null region.
C3_CategoryAndRegionTotalsAgree ==
    {"kpis", "top_categories", "region_sales"} \subseteq DOMAIN views =>
        /\ SumVals(views["top_categories"]) = SumVals(views["region_sales"])
        /\ SumVals(views["region_sales"]) = views["kpis"].total_revenue

----------------------------------------------------------------------------
(* C4 *)

\* C4: the top-N products view holds one entry per product id with that
\* product's summed revenue, ordered by summed revenue descending and truncated
\* to the first N entries (all products when fewer than N exist), products of
\* equal summed revenue in their aggregation order (the sorted product ids).
C4_TopProductsStableRanking ==
    "top_products" \in DOMAIN views =>
        LET tp == views["top_products"]
            prods == {csv.rows[i].product_id : i \in DOMAIN csv.rows} \ {NA}
            rev(p) == RevenueOver({i \in DOMAIN csv.rows :
                                      csv.rows[i].product_id = p})
            Before(p, q) == \/ rev(p) > rev(q)
                            \/ rev(p) = rev(q) /\ LabelRank(p) < LabelRank(q)
        IN /\ Len(tp) = Min(top_n, Cardinality(prods))
           /\ \A j \in DOMAIN tp : tp[j][1] \in prods /\ tp[j][2] = rev(tp[j][1])
           /\ \A i, j \in DOMAIN tp : i < j => Before(tp[i][1], tp[j][1])
           /\ \A p \in prods \ Keys(tp) : \A j \in DOMAIN tp : Before(tp[j][1], p)

----------------------------------------------------------------------------
(* C5 *)

\* C5: the orders-by-region view never has an entry labelled "United Kingdom";
\* every other label of the data appears with its row count, and the entries
\* are in ascending order of count.
C5_OrdersByRegionExcludesUK ==
    "region_orders" \in DOMAIN views =>
        LET ro == views["region_orders"]
            labels == {csv.rows[i].region : i \in DOMAIN csv.rows}
                      \ {NA, "United Kingdom"}
            rows(l) == {i \in DOMAIN csv.rows : csv.rows[i].region = l}
        IN /\ "United Kingdom" \notin Keys(ro)
           /\ Keys(ro) = labels
           /\ Len(ro) = Cardinality(labels)
           /\ \A j \in DOMAIN ro : ro[j][2] = Cardinality(rows(ro[j][1]))
           /\ \A i, j \in DOMAIN ro : i < j => ro[i][2] <= ro[j][2]

----------------------------------------------------------------------------
(* C6 *)

\* The month "YYYY-MM" of an ISO date text: its first seven characters.
MonthText(raw) == SubSeq(raw, 1, 7)

\* The chronological position of a "YYYY-MM" key, read from its digits.
MonthNumber(k) ==
    (1000 * Digit(k[1]) + 100 * Digit(k[2]) + 10 * Digit(k[3]) + Digit(k[4])) * 12
    + 10 * Digit(k[6]) + Digit(k[7])

\* Whether the text k sorts before the text l, character by character.
TextBefore(k, l) ==
    \E n \in 1..Min(Len(k), Len(l)) :
        /\ \A x \in 1..(n - 1) : k[x] = l[x]
        /\ k[n] # l[n]
        /\ k[n] = "-" \/ (l[n] # "-" /\ Digit(k[n]) < Digit(l[n]))

ValidDateRows == {i \in DOMAIN csv.rows : csv.rows[i].order_date \in {Dec25, Jan15, Jan31}}

\* C6: the orders-per-month view has exactly one entry per calendar month in
\* which a row has a valid order_date, keyed "YYYY-MM", in ascending
\* chronological order (which is the order of the keys as strings); its value
\* is the number of distinct order identifiers among the rows of that month.
C6_OrdersPerMonth ==
    "monthly_orders" \in DOMAIN views =>
        LET mo == views["monthly_orders"]
            months == {MonthText(csv.rows[i].order_date) : i \in ValidDateRows}
            ids(k) == {csv.rows[i].order_id :
                          i \in {x \in ValidDateRows :
                                    MonthText(csv.rows[x].order_date) = k}} \ {NA}
        IN /\ Len(mo) = Cardinality(months)
           /\ Keys(mo) = months
           /\ \A j \in DOMAIN mo : mo[j][2] = Cardinality(ids(mo[j][1]))
           /\ \A i, j \in DOMAIN mo :
                 i < j => /\ MonthNumber(mo[i][1]) < MonthNumber(mo[j][1])
                          /\ TextBefore(mo[i][1], mo[j][1])

\* Rows dated 2024-01-15 and 2024-01-31 make the one bucket "2024-01", and an
\* earlier month comes before it.
C6_Witness ==
    /\ "monthly_orders" \in DOMAIN views
    /\ \E i, j \in DOMAIN csv.rows :
          csv.rows[i].order_date = Jan15 /\ csv.rows[j].order_date = Jan31
    /\ \E j \in DOMAIN views["monthly_orders"] :
          views["monthly_orders"][j] = <<<<"2", "0", "2", "4", "-", "0", "1">>, 1>>

\* Two months: December 2023 comes before January 2024.
C6_WitnessTwoMonths ==
    /\ "monthly_orders" \in DOMAIN views
    /\ Len(views["monthly_orders"]) = 2

----------------------------------------------------------------------------
(* C7 *)

\* The ISO text of a parsed date.
IsoText(d) ==
    <<DigitChar(d[1] \div 1000), DigitChar((d[1] \div 100) % 10),
      DigitChar((d[1] \div 10) % 10), DigitChar(d[1] % 10), "-",
      DigitChar(d[2] \div 10), DigitChar(d[2] % 10), "-",
      DigitChar(d[3] \div 10), DigitChar(d[3] % 10)>>

\* C7: ingestion makes an order_date that cannot be parsed null and keeps a
\* date that can; no row is dropped, and every column other than order_date and
\* the added derived columns is as uploaded.
C7_IngestionKeepsRows ==
    pc # "load" =>
        /\ Len(df.rows) = Len(csv.rows)
        /\ \A j \in DOMAIN csv.cols : df.cols[j] = csv.cols[j]
        /\ Range(df.cols) \ Range(csv.cols) \subseteq {"revenue", "month"}
        /\ \A i \in DOMAIN csv.rows :
              \A c \in Range(csv.cols) \ {"order_date"} :
                  df.rows[i][c] = csv.rows[i][c]
        /\ ("order_date" \in Range(df.cols) /\ pc # "dates") =>
              \A i \in DOMAIN csv.rows :
                  LET raw == csv.rows[i].order_date
                      d == df.rows[i].order_date
                  IN IF i \in ValidDateRows THEN d # NaT /\ IsoText(d) = raw
                     ELSE d = NaT

\* A run has finished on a file with a date that is no calendar date; the row
\* is there with a null date.
C7_Witness ==
    /\ pc = "done"
    /\ \E i \in DOMAIN csv.rows :
          /\ csv.rows[i].order_date = Month13
          /\ df.rows[i].order_date = NaT
          /\ df.rows[i].order_id = csv.rows[i].order_id

----------------------------------------------------------------------------
(* C8 *)

----------------------------------------------------------------------------
(* C9 *)

\* The dataset as ingestion leaves it: read, dates coerced, revenue added.
Ingested == AddRevenue(CoerceOrderDate(read_csv(csv)))

\* C9: a run on the same dataset with the same frequency and top-N as the run
\* before it yields the same output for every view, ranked views with equal
\* sums included; and every view is what it is on the freshly ingested dataset,
\* whatever the earlier sections of the run left behind.
C9_RunsAgree ==
    pc = "done" =>
        /\ (prev.pc = "done" /\ prev.freq = freq /\ prev.top_n = top_n) =>
              views = prev.views
        /\ views["overview"] = OverviewOf(Ingested)
        /\ views["kpis"] = KpisOf(Ingested)
        /\ views["trend"] = TrendOf(Ingested, freq)
        /\ views["top_products"] = TopProductsOf(Ingested, top_n)
        /\ views["top_categories"] = TopCategoriesOf(Ingested)
        /\ views["top_customers"] = TopCustomersOf(Ingested)
        /\ views["payment_counts"] = PaymentCountsOf(Ingested)
        /\ views["region_sales"] = RegionSalesOf(Ingested)
        /\ views["region_orders"] = RegionOrdersOf(Ingested)
        /\ views["monthly_orders"] = MonthlyOrdersOf(AddMonth(Ingested))

\* A second run with the configuration of the first has finished, and its
\* product ranking holds two products of equal revenue.
C9_Witness ==
    /\ pc = "done" /\ prev.pc = "done"
    /\ prev.freq = freq /\ prev.top_n = top_n
    /\ \E i, j \in DOMAIN views["top_products"] :
          i < j /\ views["top_products"][i][2] = views["top_products"][j][2]

----------------------------------------------------------------------------
(* C10 *)

NullDateRows == DOMAIN csv.rows \ ValidDateRows

\* The bucket of an ISO date text: the day, or the month as a string.
Bucket(raw) ==
    IF freq = "D"
    THEN <<1000 * Digit(raw[1]) + 100 * Digit(raw[2]) + 10 * Digit(raw[3])
             + Digit(raw[4]),
           10 * Digit(raw[6]) + Digit(raw[7]),
           10 * Digit(raw[9]) + Digit(raw[10])>>
    ELSE MonthText(raw)

BucketNumber(k) == IF freq = "D" THEN DateCode(k) ELSE MonthNumber(k)

\* The part of C10 that holds: one entry per bucket with a dated row, in
\* ascending chronological order, each the revenue of its rows; the rows with a
\* null date are in no bucket and their revenue is in the KPI only.
C10_TrendShape ==
    LET ts == views["trend"]
        buckets == {Bucket(csv.rows[i].order_date) : i \in ValidDateRows}
    IN /\ Len(ts) = Cardinality(buckets)
       /\ Keys(ts) = buckets
       /\ \A i, j \in DOMAIN ts :
             i < j => BucketNumber(ts[i][1]) < BucketNumber(ts[j][1])
       /\ \A j \in DOMAIN ts :
             ts[j][2] = RevenueOver({i \in ValidDateRows :
                                        Bucket(csv.rows[i].order_date) = ts[j][1]})
       /\ SumVals(ts) = RevenueOver(ValidDateRows)
       /\ views["kpis"].total_revenue = SumVals(ts) + RevenueOver(NullDateRows)

====
